---------------------------- MODULE Spec2Model ----------------------------
(* Model of the label generator: labelmaker.py (multi-label, dymo/ptouch,   *)
(* optional QR code) and its two single-label predecessors tape_label.py    *)
(* (ptouch tape) and generate_label.py (dymo).                              *)
(*                                                                          *)
(* Lengths are integers in units of 1/254000 pt, so that 1 mm (= 360/127    *)
(* pt), a glyph width of 1/1000 em and every halving done by the code are   *)
(* exact.  Font sizes are plain numbers of points, as in the code.          *)
EXTENDS Integers, Sequences, FiniteSets, TLC

\* ------------------------------------------------------------------ bounds
\* Largest number of labels on one command line.
MaxLabels == 2

\* Longest payload the QR encoder accepts (stands for the byte capacity of
\* the largest QR version at error correction L); longer data makes
\* qr.make(fit=True) raise.
QrCapacity == 12

\* ------------------------------------------------------------------- units
\* Length units per point.
Pt == 2 * 127 * 1000

\* reportlab.lib.units.mm: one millimetre = 72 / 25.4 pt.
mm == (360 * Pt) \div 127

\* reportlab's default page size (A4), used by a canvas built without one.
A4 == <<210 * mm, 297 * mm>>

\* reportlab.lib.pagesizes.landscape: the longer side first.
landscape(pagesize) ==
    IF pagesize[1] < pagesize[2] THEN <<pagesize[2], pagesize[1]>> ELSE pagesize

\* -------------------------------------------------------------------- text
\* A text is a sequence of one-character strings.
Chars == {" ", "/", ":", "A", "W", "a", "b", "h", "p", "s", "t", "x"}

\* Helvetica-Bold advance widths, in 1/1000 em.
CharWidth(c) ==
    CASE c = " " -> 278
      [] c = "/" -> 278
      [] c = ":" -> 333
      [] c = "A" -> 722
      [] c = "W" -> 944
      [] c = "a" -> 556
      [] c = "b" -> 611
      [] c = "h" -> 611
      [] c = "p" -> 611
      [] c = "s" -> 556
      [] c = "t" -> 333
      [] c = "x" -> 556

RECURSIVE SumWidths(_)
SumWidths(text) ==
    IF text = <<>> THEN 0 ELSE CharWidth(Head(text)) + SumWidths(Tail(text))

\* canvas.stringWidth(text, "Helvetica-Bold", font_size), in length units.
stringWidth(text, font_size) == SumWidths(text) * font_size * (Pt \div 1000)

\* calculate_text_width: the width measured on a temporary canvas.
calculate_text_width(text, font_size) == stringWidth(text, font_size)

\* The S/M/L table and its .get(key, 12) lookup.
font_sizes_get(key) ==
    CASE key = "S" -> 8
      [] key = "M" -> 12
      [] key = "L" -> 18
      [] OTHER -> 12

\* ------------------------------------------------------- determine_font_size
\* The while loop of determine_font_size, entered with font_size.
RECURSIVE shrink_loop(_, _, _)
shrink_loop(text, width, font_size) ==
    IF font_size > 6
    THEN IF calculate_text_width(text, font_size) <= width - 10 * Pt
         THEN font_size
         ELSE shrink_loop(text, width, font_size - 1)
    ELSE font_size

Max(a, b) == IF a >= b THEN a ELSE b

\* Mutant: the fit test forgets the padding.
determine_font_size_nopad(text, width, height) ==
    LET RECURSIVE loop(_)
        loop(fs) == IF fs > 6
                    THEN IF calculate_text_width(text, fs) <= width
                         THEN fs ELSE loop(fs - 1)
                    ELSE fs
    IN Max(loop(72), 6)

\* labelmaker.py determine_font_size.
determine_font_size(text, width, height) == Max(shrink_loop(text, width, 72), 6)

\* generate_label.py determine_font_size (measures on its own canvas).
RECURSIVE shrink_loop_gl(_, _, _)
shrink_loop_gl(text, width, font_size) ==
    IF font_size > 6
    THEN IF stringWidth(text, font_size) <= width - 10 * Pt
         THEN font_size
         ELSE shrink_loop_gl(text, width, font_size - 1)
    ELSE font_size

determine_font_size_gl(text, width, height) ==
    Max(shrink_loop_gl(text, width, 72), 6)

\* ------------------------------------------------------------ URL detection
IsSpace(c) == c = " "

StartsWith(s, p, lit) ==
    /\ p + Len(lit) - 1 <= Len(s)
    /\ SubSeq(s, p, p + Len(lit) - 1) = lit

\* First index >= q that is past the end of s or holds whitespace.
RECURSIVE RunEnd(_, _)
RunEnd(s, q) ==
    IF q > Len(s) \/ IsSpace(s[q]) THEN q ELSE RunEnd(s, q + 1)

\* Length of the match of https?://[^\s]+ anchored at p, 0 when none.
MatchAt(s, p) ==
    LET https == <<"h", "t", "t", "p", "s", ":", "/", "/">>
        http  == <<"h", "t", "t", "p", ":", "/", "/">>
        body(q) == RunEnd(s, q) - q
    IN IF StartsWith(s, p, https) /\ body(p + 8) > 0 THEN 8 + body(p + 8)
       ELSE IF StartsWith(s, p, http) /\ body(p + 7) > 0 THEN 7 + body(p + 7)
       ELSE 0

RECURSIVE SearchFrom(_, _)
SearchFrom(s, p) ==
    IF p > Len(s) THEN [found |-> FALSE, start |-> 0, len |-> 0]
    ELSE IF MatchAt(s, p) > 0
         THEN [found |-> TRUE, start |-> p, len |-> MatchAt(s, p)]
         ELSE SearchFrom(s, p + 1)

\* is_url: url_regex.search(string), the leftmost match or none.
is_url(string) == SearchFrom(string, 1)

\* url_match.group(0)
group0(string, m) == SubSeq(string, m.start, m.start + m.len - 1)

\* str.replace(old, ''): every non-overlapping occurrence, left to right.
RECURSIVE replace(_, _)
replace(s, old) ==
    IF Len(s) < Len(old) THEN s
    ELSE IF SubSeq(s, 1, Len(old)) = old
         THEN replace(SubSeq(s, Len(old) + 1, Len(s)), old)
         ELSE <<Head(s)>> \o replace(Tail(s), old)

\* str.strip()
RECURSIVE strip(_)
strip(s) ==
    IF s = <<>> THEN s
    ELSE IF IsSpace(Head(s)) THEN strip(Tail(s))
    ELSE IF IsSpace(s[Len(s)]) THEN strip(SubSeq(s, 1, Len(s) - 1))
    ELSE s


\* ------------------------------------------------------------------ canvas
\* A reportlab canvas: the current page size and font, the content of the
\* page being built (_code), the pages emitted so far and the number of
\* times the document was written out.
Canvas(pagesize) ==
    [pagesize |-> pagesize, fontName |-> "Helvetica", fontSize |-> 12,
     code |-> <<>>, pages |-> <<>>, saved |-> 0]

Op(op, x, y, w, h, text, fontSize) ==
    [op |-> op, x |-> x, y |-> y, w |-> w, h |-> h, text |-> text,
     fontSize |-> fontSize]

setPageSize(pdf, size) == [pdf EXCEPT !.pagesize = size]

setFont(pdf, name, size) ==
    [pdf EXCEPT !.fontName = name, !.fontSize = size,
                !.code = Append(@, Op("font", 0, 0, 0, 0, <<>>, size))]

drawString(pdf, x, y, text) ==
    [pdf EXCEPT !.code = Append(@, Op("text", x, y, 0, 0, text, pdf.fontSize))]

drawImage(pdf, data, x, y, width, height) ==
    [pdf EXCEPT !.code = Append(@, Op("image", x, y, width, height, data, 0))]

\* Emits the page being built at the current page size and starts a new one.
showPage(pdf) ==
    [pdf EXCEPT !.pages = Append(@, [pagesize |-> pdf.pagesize, code |-> pdf.code]),
                !.code = <<>>, !.fontName = "Helvetica", !.fontSize = 12]

\* Emits a page still holding content, then writes the document.
save(pdf) ==
    LET p == IF pdf.code # <<>> THEN showPage(pdf) ELSE pdf
    IN [p EXCEPT !.saved = @ + 1]

\* --------------------------------------------------------- label functions
\* labelmaker.py generate_dymo_label
generate_dymo_label(pdf, text) ==
    LET size == landscape(<<153 * Pt, 72 * Pt>>)
        width == size[1]
        height == size[2]
        font_size == determine_font_size(text, width, height)
        p1 == setFont(pdf, "Helvetica-Bold", font_size)
        text_width == stringWidth(text, font_size)
        p2 == drawString(p1, (width - text_width) \div 2,
                         (height - font_size * Pt) \div 2, text)
    IN showPage(p2)

\* Mutant: the page is finalized even when a QR code is still to come.
generate_ptouch_label_alwaysshow(pdf, text, font_size_key, has_qr_code) ==
    LET font_size == font_sizes_get(font_size_key)
        text_width == calculate_text_width(text, font_size) + 10 * Pt
        qr_padding == 10 * Pt
        qr_code_width == IF has_qr_code THEN 40 * Pt + qr_padding ELSE 0
        total_width == text_width + qr_code_width
        p1 == setPageSize(pdf, <<total_width, 12 * mm>>)
        p2 == setFont(p1, "Helvetica-Bold", font_size)
        text_y == (12 * mm - font_size * Pt) \div 2
        p3 == drawString(p2, 5 * Pt, text_y, text)
    IN showPage(p3)

\* Mutant: the page width leaves out the room for the QR code.
generate_ptouch_label_noreserve(pdf, text, font_size_key, has_qr_code) ==
    LET font_size == font_sizes_get(font_size_key)
        text_width == calculate_text_width(text, font_size) + 10 * Pt
        total_width == text_width
        p1 == setPageSize(pdf, <<total_width, 12 * mm>>)
        p2 == setFont(p1, "Helvetica-Bold", font_size)
        text_y == (12 * mm - font_size * Pt) \div 2
        p3 == drawString(p2, 5 * Pt, text_y, text)
    IN IF ~has_qr_code THEN showPage(p3) ELSE p3

\* Mutant: the page width leaves out the padding around the text.
generate_ptouch_label_nopad(pdf, text, font_size_key, has_qr_code) ==
    LET font_size == font_sizes_get(font_size_key)
        text_width == calculate_text_width(text, font_size)
        qr_code_width == IF has_qr_code THEN 40 * Pt ELSE 0
        total_width == text_width + qr_code_width
        p1 == setPageSize(pdf, <<total_width, 12 * mm>>)
        p2 == setFont(p1, "Helvetica-Bold", font_size)
        text_y == (12 * mm - font_size * Pt) \div 2
        p3 == drawString(p2, 5 * Pt, text_y, text)
    IN IF ~has_qr_code THEN showPage(p3) ELSE p3

\* labelmaker.py generate_ptouch_label
generate_ptouch_label(pdf, text, font_size_key, has_qr_code) ==
    LET font_size == font_sizes_get(font_size_key)
        text_width == calculate_text_width(text, font_size) + 10 * Pt
        qr_padding == 10 * Pt
        qr_code_width == IF has_qr_code THEN 40 * Pt + qr_padding ELSE 0
        total_width == text_width + qr_code_width
        p1 == setPageSize(pdf, <<total_width, 12 * mm>>)
        p2 == setFont(p1, "Helvetica-Bold", font_size)
        text_y == (12 * mm - font_size * Pt) \div 2
        p3 == drawString(p2, 5 * Pt, text_y, text)
    IN IF ~has_qr_code THEN showPage(p3) ELSE p3

\* qr.add_data(url); qr.make(fit=True) raises when no QR version holds url.
qr_make_raises(url) == Len(url) > QrCapacity

\* Mutant: the QR code is placed right at the end of the text.
add_qr_code_to_pdf_nopad(pdf, url, text_width, total_width) ==
    LET qr_size == 40 * Pt
        qr_code_x == text_width
        qr_code_y == (12 * mm - qr_size) \div 2
        p1 == drawImage(pdf, url, qr_code_x, qr_code_y, qr_size, qr_size)
    IN showPage(p1)

\* labelmaker.py add_qr_code_to_pdf, when the encoder accepts url
add_qr_code_to_pdf(pdf, url, text_width, total_width) ==
    LET qr_size == 40 * Pt
        qr_padding == 10 * Pt
        qr_code_x == text_width + qr_padding
        qr_code_y == (12 * mm - qr_size) \div 2
        p1 == drawImage(pdf, url, qr_code_x, qr_code_y, qr_size, qr_size)
    IN showPage(p1)

\* Mutant: the text is centred without the 4 pt lift.
tape_generate_label_pdf_nolift(text, font_size_key) ==
    LET font_size == font_sizes_get(font_size_key)
        width == calculate_text_width(text, font_size) + 10 * Pt
        height == 12 * mm
        p0 == Canvas(<<width, height>>)
        p1 == setFont(p0, "Helvetica-Bold", font_size)
        text_y == (height - font_size * Pt) \div 2
        p2 == drawString(p1, 5 * Pt, text_y, text)
    IN save(showPage(p2))

\* tape_label.py generate_label_pdf
tape_generate_label_pdf(text, font_size_key) ==
    LET font_size == font_sizes_get(font_size_key)
        width == calculate_text_width(text, font_size) + 10 * Pt
        height == 12 * mm
        p0 == Canvas(<<width, height>>)
        p1 == setFont(p0, "Helvetica-Bold", font_size)
        text_height == font_size * Pt
        text_y == (height - text_height + 4 * Pt) \div 2
        p2 == drawString(p1, 5 * Pt, text_y, text)
    IN save(showPage(p2))

\* generate_label.py generate_label_pdf
gl_generate_label_pdf(text) ==
    LET size == landscape(<<153 * Pt, 72 * Pt>>)
        width == size[1]
        height == size[2]
        p0 == Canvas(<<width, height>>)
        font_size == determine_font_size_gl(text, width, height)
        p1 == setFont(p0, "Helvetica-Bold", font_size)
        text_width == stringWidth(text, font_size)
        p2 == drawString(p1, (width - text_width) \div 2,
                         (height - font_size * Pt) \div 2, text)
    IN save(showPage(p2))

\* ------------------------------------------------------------------ inputs
RECURSIVE Rep(_, _)
Rep(c, n) == IF n = 0 THEN <<>> ELSE <<c>> \o Rep(c, n - 1)

Http == <<"h", "t", "t", "p", ":", "/", "/">>
Https == <<"h", "t", "t", "p", "s", ":", "/", "/">>

\* 26 W's: wider than the dymo label even at the smallest font size.
LongText == Rep("W", 26)

\* A URL one QR code cannot hold.
LongUrl == Http \o Rep("x", QrCapacity)

\* The label strings the command line draws from.
LabelSet ==
    { <<"a">>,
      <<"A", " ">>,
      <<"a", " ", "b">>,
      LongText,
      Http \o <<"a">>,
      <<"a", " ">> \o Http \o <<"x">>,
      Https \o <<"x", " ", "a">>,
      Http \o <<"a", " ">> \o Http \o <<"a", "b">>,
      Http \o <<"a", " ">> \o Http \o <<"a">>,
      <<" ", "b", " ">> \o Https \o <<"a", " ">>,
      <<"h", "t", "t", "p", ":", "/", "a">>,
      Https \o <<" ", "a">>,
      <<"a">> \o Http \o <<"b">>,
      <<"a", " ">> \o LongUrl,
      LongText \o <<" ">> \o Http \o <<"a">> }

Printers == {"dymo", "ptouch"}
Sizes == {"S", "M", "L"}

\* Non-empty label lists of at most MaxLabels labels.
LabelLists == UNION { [1..n -> LabelSet] : n \in 1..MaxLabels }

\* Page widths determine_font_size is tried with, in points.
FitWidths == {0, 10, 16, 30, 40, 153}

None == "None"
NoMatch == [found |-> FALSE, start |-> 0, len |-> 0]

\* ------------------------------------------------------------------- state
VARIABLES
    prog,       \* the script run: "labelmaker", "tape_label", "generate_label"
    args,       \* the parsed command line: printer, labels, size
    font_size,  \* main's font_size, looked up from args.size
    pdf,        \* the canvas, None before it is constructed
    pc,         \* position in main
    i,          \* index of the next label of the for loop
    loc,        \* main's loop locals
    fit         \* a determine_font_size call: its arguments and result

vars == <<prog, args, font_size, pdf, pc, i, loc, fit>>

InitLabelmaker ==
    /\ prog = "labelmaker"
    /\ \E printer \in Printers, labels \in LabelLists, size \in Sizes :
           /\ args = [printer |-> printer, labels |-> labels, size |-> size]
           /\ font_size = font_sizes_get(size)
    /\ pdf = Canvas(A4)
    /\ pc = "loop"

InitTapeLabel ==
    /\ prog = "tape_label"
    /\ \E text \in LabelSet, size \in Sizes :
           args = [printer |-> "ptouch", labels |-> <<text>>, size |-> size]
    /\ font_size = 0
    /\ pdf = None
    /\ pc = "main"

InitGenerateLabel ==
    /\ prog = "generate_label"
    /\ \E text \in LabelSet :
           args = [printer |-> "dymo", labels |-> <<text>>, size |-> "M"]
    /\ font_size = 0
    /\ pdf = None
    /\ pc = "main"

Init ==
    /\ InitLabelmaker \/ InitTapeLabel \/ InitGenerateLabel
    /\ i = 1
    /\ loc = [label |-> <<>>, url_match |-> NoMatch, url |-> <<>>, text |-> <<>>,
              text_width |-> 0, total_width |-> 0]
    /\ fit = None

\* ----------------------------------------------------------------- actions
InLoop ==
    /\ prog = "labelmaker"
    /\ pc = "loop"
    /\ i <= Len(args.labels)

\* main's locals after the `if url_match:` prologue (lines 139-148).
UrlLocals(label) ==
    LET url_match == is_url(label)
        url == group0(label, url_match)
        text == strip(replace(label, url))
        text_width == calculate_text_width(text, font_size)
        qr_code_width == 40 * Pt + 10 * Pt
    IN [label |-> label, url_match |-> url_match, url |-> url, text |-> text,
        text_width |-> text_width, total_width |-> text_width + qr_code_width]

\* One iteration: a label with a URL, dymo printer.
MainUrlDymo ==
    /\ InLoop
    /\ is_url(args.labels[i]).found
    /\ args.printer = "dymo"
    /\ loc' = UrlLocals(args.labels[i])
    /\ pdf' = generate_dymo_label(pdf, loc'.text)
    /\ i' = i + 1
    /\ UNCHANGED <<prog, args, font_size, pc, fit>>

\* One iteration: a label with a URL, ptouch printer, QR code encoded.
MainUrlPtouch ==
    /\ InLoop
    /\ is_url(args.labels[i]).found
    /\ args.printer = "ptouch"
    /\ loc' = UrlLocals(args.labels[i])
    /\ ~qr_make_raises(loc'.url)
    /\ pdf' = add_qr_code_to_pdf(
                 generate_ptouch_label(pdf, loc'.text, args.size, TRUE),
                 loc'.url, loc'.text_width, loc'.total_width)
    /\ i' = i + 1
    /\ UNCHANGED <<prog, args, font_size, pc, fit>>

\* One iteration: a label with a URL, ptouch printer, the QR encoder raises
\* inside add_qr_code_to_pdf and the exception leaves main.
MainUrlPtouchRaises ==
    /\ InLoop
    /\ is_url(args.labels[i]).found
    /\ args.printer = "ptouch"
    /\ loc' = UrlLocals(args.labels[i])
    /\ qr_make_raises(loc'.url)
    /\ pdf' = generate_ptouch_label(pdf, loc'.text, args.size, TRUE)
    /\ pc' = "raised"
    /\ UNCHANGED <<prog, args, font_size, i, fit>>

\* One iteration: a label without a URL, dymo printer.
MainPlainDymo ==
    /\ InLoop
    /\ ~is_url(args.labels[i]).found
    /\ args.printer = "dymo"
    /\ loc' = [loc EXCEPT !.label = args.labels[i], !.url_match = NoMatch]
    /\ pdf' = generate_dymo_label(pdf, args.labels[i])
    /\ i' = i + 1
    /\ UNCHANGED <<prog, args, font_size, pc, fit>>

\* One iteration: a label without a URL, ptouch printer.
MainPlainPtouch ==
    /\ InLoop
    /\ ~is_url(args.labels[i]).found
    /\ args.printer = "ptouch"
    /\ loc' = [loc EXCEPT !.label = args.labels[i], !.url_match = NoMatch]
    /\ pdf' = generate_ptouch_label(pdf, args.labels[i], args.size, FALSE)
    /\ i' = i + 1
    /\ UNCHANGED <<prog, args, font_size, pc, fit>>

\* After the loop: pdf.save().
MainSave ==
    /\ prog = "labelmaker"
    /\ pc = "loop"
    /\ i > Len(args.labels)
    /\ pdf' = save(pdf)
    /\ pc' = "done"
    /\ UNCHANGED <<prog, args, font_size, i, loc, fit>>

\* tape_label.py main
TapeLabelMain ==
    /\ prog = "tape_label"
    /\ pc = "main"
    /\ pdf' = tape_generate_label_pdf(args.labels[1], args.size)
    /\ pc' = "done"
    /\ UNCHANGED <<prog, args, font_size, i, loc, fit>>

\* generate_label.py main
GenerateLabelMain ==
    /\ prog = "generate_label"
    /\ pc = "main"
    /\ pdf' = gl_generate_label_pdf(args.labels[1])
    /\ pc' = "done"
    /\ UNCHANGED <<prog, args, font_size, i, loc, fit>>

Next ==
    \/ MainUrlDymo
    \/ MainUrlPtouch
    \/ MainUrlPtouchRaises
    \/ MainPlainDymo
    \/ MainPlainPtouch
    \/ MainSave
    \/ TapeLabelMain
    \/ GenerateLabelMain

Spec == Init /\ [][Next]_vars

\* ------------------------------------- determine_font_size as a function
InitFit ==
    /\ prog \in {"labelmaker", "generate_label"}
    /\ args = [printer |-> "dymo", labels |-> <<>>, size |-> "M"]
    /\ font_size = 0
    /\ pdf = None
    /\ pc = "call"
    /\ i = 1
    /\ loc = [label |-> <<>>, url_match |-> NoMatch, url |-> <<>>, text |-> <<>>,
              text_width |-> 0, total_width |-> 0]
    /\ \E text \in LabelSet, w \in FitWidths :
           fit = [text |-> text, width |-> w * Pt, height |-> 72 * Pt, result |-> 0]

FitLabelmaker ==
    /\ prog = "labelmaker"
    /\ pc = "call"
    /\ fit' = [fit EXCEPT !.result = determine_font_size(fit.text, fit.width, fit.height)]
    /\ pc' = "return"
    /\ UNCHANGED <<prog, args, font_size, pdf, i, loc>>

FitGenerateLabel ==
    /\ prog = "generate_label"
    /\ pc = "call"
    /\ fit' = [fit EXCEPT !.result = determine_font_size_gl(fit.text, fit.width, fit.height)]
    /\ pc' = "return"
    /\ UNCHANGED <<prog, args, font_size, pdf, i, loc>>

NextFit == FitLabelmaker \/ FitGenerateLabel

SpecFit == InitFit /\ [][NextFit]_vars


\* ------------------------------------------------------------------ claims
\* The canvas exists: labelmaker builds it before the loop, the single-label
\* scripts inside generate_label_pdf.
Constructed == prog = "labelmaker" \/ pc = "done"

Pages == pdf.pages
TextOps(page) == SelectSeq(page.code, LAMBDA o : o.op = "text")
ImageOps(page) == SelectSeq(page.code, LAMBDA o : o.op = "image")
HasQr(page) == ImageOps(page) # <<>>
TheText(page) == TextOps(page)[1]
TheQr(page) == ImageOps(page)[1]
Measured(page) == stringWidth(TheText(page).text, TheText(page).fontSize)

\* Pages of the fixed-size (dymo) and of the variable-width (ptouch) medium.
FixedMedium == args.printer = "dymo"
VariableMedium == args.printer = "ptouch"

\* C1: determine_font_size(T, W, _) returns S in 6..72; every larger size up
\* to 72 measures wider than W - 10; and S itself fits within W - 10 unless
\* S = 6 (the floor is returned, without an error, when nothing fits).
C1_ShrinkToFit ==
    pc = "return" =>
        LET S == fit.result
            T == fit.text
            W == fit.width
        IN /\ S \in 6..72
           /\ \A S2 \in (S + 1)..72 : stringWidth(T, S2) > W - 10 * Pt
           /\ stringWidth(T, S) <= W - 10 * Pt \/ S = 6

\* C1 witness: a text that overflows even at size 6 got the floor, 6.
C1_Witness ==
    /\ pc = "return"
    /\ fit.result = 6
    /\ stringWidth(fit.text, 6) > fit.width - 10 * Pt

\* C2: labelmaker emits one page per label: between iterations as many
\* pages as labels done and no page under construction, after save as many
\* pages as labels; a ptouch page of a URL label holds both the text and
\* the QR image, a page of any other label the text alone.
C2_OnePagePerLabel ==
    (prog = "labelmaker" /\ pc \in {"loop", "done"}) =>
        /\ Len(Pages) = i - 1
        /\ pdf.code = <<>>
        /\ pc = "done" => Len(Pages) = Len(args.labels)
        /\ \A k \in 1..Len(Pages) :
              /\ Len(TextOps(Pages[k])) = 1
              /\ Len(ImageOps(Pages[k])) =
                    IF VariableMedium /\ is_url(args.labels[k]).found THEN 1 ELSE 0

\* C2 witness: a finished ptouch run of two labels, one with a URL and one
\* without.
C2_Witness ==
    /\ prog = "labelmaker" /\ pc = "done" /\ VariableMedium
    /\ Len(args.labels) = 2
    /\ HasQr(Pages[1]) /\ ~HasQr(Pages[2])

\* C3: every page labelmaker or generate_label emits for the dymo medium
\* measures exactly 153 x 72 pt.
C3_DymoPageSize ==
    (Constructed /\ FixedMedium) =>
        \A k \in 1..Len(Pages) : Pages[k].pagesize = <<153 * Pt, 72 * Pt>>

C5_QrPosition ==
    (prog = "labelmaker" /\ VariableMedium) =>
        \A k \in 1..Len(Pages) :
            LET page == Pages[k]
            IN HasQr(page) =>
                  /\ TheQr(page).w = 40 * Pt
                  /\ TheQr(page).h = 40 * Pt
                  /\ TheQr(page).x = Measured(page) + 10 * Pt
                  /\ 2 * TheQr(page).y = page.pagesize[2] - 40 * Pt
                  /\ page.pagesize[1] = TheQr(page).x + 40 * Pt + 10 * Pt

\* C5 witness: a QR page whose text is not empty, at a font size other than
\* the default.
C5_Witness ==
    /\ prog = "labelmaker" /\ VariableMedium /\ args.size = "S"
    /\ Len(Pages) >= 1
    /\ HasQr(Pages[1])
    /\ TheText(Pages[1]).text # <<>>

\* C6: when main ends, normally or by an exception of a later label, the
\* document has been saved exactly once.
C6_SavedOnExit ==
    (prog = "labelmaker" /\ pc \in {"done", "raised"}) => pdf.saved = 1

\* The label with the one occurrence of length len at start cut out.
RemoveAt(label, start, len) ==
    SubSeq(label, 1, start - 1) \o SubSeq(label, start + len, Len(label))

\* C7: after an iteration, for a label with a URL, url is the first match
\* and the text is the label with that one match cut out, trimmed; for a
\* label without one, the label itself is what is drawn.
C7_ExtractUrl ==
    (prog = "labelmaker" /\ (i > 1 \/ pc = "raised")) =>
        LET m == is_url(loc.label)
        IN IF m.found
           THEN /\ loc.url = group0(loc.label, m)
                /\ loc.text = strip(RemoveAt(loc.label, m.start, m.len))
           ELSE TheText(Pages[Len(Pages)]).text = loc.label

\* Width and height positive, font size within 6..72.
PageSane(page) ==
    /\ page.pagesize[1] > 0
    /\ page.pagesize[2] > 0
    /\ TheText(page).fontSize \in 6..72

\* The page is wide enough for the text, the padding and the QR image.
PageHolds(page) ==
    page.pagesize[1] >=
        Measured(page) + 10 * Pt + (IF HasQr(page) THEN 40 * Pt ELSE 0)

\* C8 as stated: every emitted page, on either medium, has positive width
\* and height, a font size within 6..72, and is at least as wide as the
\* text plus 10 plus the QR image.
C8_PageHoldsText ==
    Constructed =>
        \A k \in 1..Len(Pages) : PageSane(Pages[k]) /\ PageHolds(Pages[k])

\* C8 amended: every emitted page has positive width and height and a font
\* size within 6..72; it is at least as wide as the text plus 10 plus the QR
\* image on the ptouch medium, and on the dymo medium whenever the text fits
\* the 153 pt label at the chosen size (width <= 143).
C8_PageHoldsTextIfFits ==
    Constructed =>
        \A k \in 1..Len(Pages) :
            /\ PageSane(Pages[k])
            /\ (VariableMedium \/ Measured(Pages[k]) <= 153 * Pt - 10 * Pt)
                  => PageHolds(Pages[k])

\* C8 witness: generate_label shrank a text to a size strictly between the
\* floor and the start, so that it fits the dymo label.
C8_Witness ==
    /\ prog = "generate_label" /\ pc = "done"
    /\ TheText(Pages[1]).fontSize \in 7..71
    /\ Measured(Pages[1]) <= 153 * Pt - 10 * Pt

\* Text position on the dymo label: centred in 153 x 72.
DymoTextCentred(page) ==
    /\ 2 * TheText(page).x = 153 * Pt - Measured(page)
    /\ 2 * TheText(page).y = 72 * Pt - TheText(page).fontSize * Pt

\* Text position on the tape: x = 5, y = (12 mm - font size + lift) / 2.
TapeTextAt(page, lift) ==
    /\ TheText(page).x = 5 * Pt
    /\ 2 * TheText(page).y = 12 * mm - TheText(page).fontSize * Pt + lift

C10_QrInsidePage ==
    (prog = "labelmaker" /\ VariableMedium) =>
        \A k \in 1..Len(Pages) :
            LET page == Pages[k]
                qr == TheQr(page)
            IN HasQr(page) =>
                  /\ 0 <= qr.x
                  /\ qr.x + qr.w <= page.pagesize[1]
                  /\ 0 <= qr.y
                  /\ qr.y + qr.h <= page.pagesize[2]
                  /\ 5 * Pt + Measured(page) <= qr.x

=============================================================================
